---------------------------- MODULE Spec2Model ----------------------------
(***************************************************************************)
(* Model of module/research/project.py: research project recognition,      *)
(* catalog reconciliation (ResearchProject), the priority post-filter      *)
(* (ResearchSelector), the template path (ResearchProjectJp) and the       *)
(* template classifier (MatchTemplate).                                    *)
(*                                                                         *)
(* Python strings are modelled as sequences of one-character strings, so   *)
(* that strip / rstrip / split / replace / regex search are computed the   *)
(* way the code computes them.                                             *)
(***************************************************************************)
EXTENDS Integers, Sequences, FiniteSets, TLC

VARIABLES
    args,       \* arguments of the last ResearchProject(name, series) call
    project,    \* <<record>> built by that call, <<>> before any call
    row,        \* a catalog row handed to the attribute derivation
    derived,    \* <<record>> derived from row, <<>> before derivation
    pc,         \* position of the running call
    config,     \* RESEARCH_USE_COIN / RESEARCH_USE_CUBE / RESEARCH_USE_PART
    projects,   \* ResearchSelector.projects
    priority,   \* the raw ordering returned by FILTER.apply
    out,        \* the list returned by the research_sort_* call
    images,     \* the screenshots given to research_detect_jp
    folder,     \* the template folder: whether it exists and its listing
    query,      \* the score of the query image against each reference file
    templates,  \* MatchTemplate.templates, in insertion order
    label       \* the label returned by match_template

selector_vars == <<config, projects, priority, out, images>>
template_vars == <<folder, query, templates, label>>

vars == <<args, project, row, derived, pc, selector_vars, template_vars>>

-----------------------------------------------------------------------------
(* Bounds *)

MaxHalfHours == 24      \* row times range over 0 .. MaxHalfHours half hours
MaxOutputs == 2         \* length of a row's output list
MaxInputs == 1          \* length of a row's input list
MaxSlots == 2           \* project slots recognized on one screenshot
MaxPriority == 3        \* length of the raw ordering of the filter
MaxImages == 2          \* screenshots in one research_detect_jp batch
MaxFiles == 2           \* files listed in the template folder

-----------------------------------------------------------------------------
(* String helpers (Python str methods) *)

Min(S) == CHOOSE x \in S : \A y \in S : x <= y

RECURSIVE lstrip(_, _)
lstrip(s, chars) ==
    IF s # <<>> /\ Head(s) \in chars THEN lstrip(Tail(s), chars) ELSE s

RECURSIVE rstrip(_, _)
rstrip(s, chars) ==
    IF s # <<>> /\ s[Len(s)] \in chars
    THEN rstrip(SubSeq(s, 1, Len(s) - 1), chars)
    ELSE s

strip(s, chars) == rstrip(lstrip(s, chars), chars)

\* s.split(sep) for a one-character separator: always at least one part.
RECURSIVE split(_, _)
split(s, sep) ==
    IF \A i \in 1..Len(s) : s[i] # sep
    THEN <<s>>
    ELSE LET p == Min({i \in 1..Len(s) : s[i] = sep})
         IN  <<SubSeq(s, 1, p - 1)>> \o split(SubSeq(s, p + 1, Len(s)), sep)

RECURSIVE join(_, _)
join(sep, parts) ==
    IF parts = <<>> THEN <<>>
    ELSE IF Len(parts) = 1 THEN parts[1]
    ELSE parts[1] \o <<sep>> \o join(sep, Tail(parts))

\* s.replace(a, b) for one-character a and b.
replace(s, a, b) == [i \in 1..Len(s) |-> IF s[i] = a THEN b ELSE s[i]]

\* s.replace(' ', ''): deletion of every space.
remove_spaces(s) == SelectSeq(s, LAMBDA c : c # " ")

UPPERCASE ==
    <<"A","B","C","D","E","F","G","H","I","J","K","L","M",
      "N","O","P","Q","R","S","T","U","V","W","X","Y","Z">>
LOWERCASE ==
    <<"a","b","c","d","e","f","g","h","i","j","k","l","m",
      "n","o","p","q","r","s","t","u","v","w","x","y","z">>

lower(s) ==
    [i \in 1..Len(s) |->
        IF \E k \in 1..26 : UPPERCASE[k] = s[i]
        THEN LOWERCASE[CHOOSE k \in 1..26 : UPPERCASE[k] = s[i]]
        ELSE s[i]]

upper(s) ==
    [i \in 1..Len(s) |->
        IF \E k \in 1..26 : LOWERCASE[k] = s[i]
        THEN UPPERCASE[CHOOSE k \in 1..26 : LOWERCASE[k] = s[i]]
        ELSE s[i]]

DIGITS == <<"0","1","2","3","4","5","6","7","8","9">>

\* str(n) for a natural number n.
RECURSIVE str_int(_)
str_int(n) ==
    IF n < 10 THEN <<DIGITS[n + 1]>>
    ELSE str_int(n \div 10) \o <<DIGITS[(n % 10) + 1]>>

\* str(seconds / 3600) for a float that is a whole or half number of hours:
\* Python prints 'h.0' or 'h.5'.
str_hours(seconds) ==
    str_int(seconds \div 3600)
        \o <<".">> \o (IF seconds % 3600 = 0 THEN <<"0">> ELSE <<"5">>)

\* re.search of an alternation of literal words: the leftmost position where
\* some alternative matches, and at that position the first alternative in
\* the order written.  <<>> stands for "no match"; otherwise group(1).
MatchAt(s, p, w) ==
    /\ p + Len(w) - 1 <= Len(s)
    /\ SubSeq(s, p, p + Len(w) - 1) = w

re_search(words, s) ==
    LET P == {p \in 1..Len(s) : \E i \in 1..Len(words) : MatchAt(s, p, words[i])}
    IN  IF P = {} THEN <<>>
        ELSE LET p == Min(P)
                 i == Min({k \in 1..Len(words) : MatchAt(s, p, words[k])})
             IN  words[i]

-----------------------------------------------------------------------------
(* Class constants of ResearchProject *)

REGEX_SHIP ==
    << <<"n","e","p","t","u","n","e">>,
       <<"m","o","n","a","r","c","h">>,
       <<"i","b","u","k","i">>,
       <<"i","z","u","m","o">>,
       <<"r","o","o","n">>,
       <<"s","a","i","n","t","l","o","u","i","s">>,
       <<"s","e","a","t","t","l","e">>,
       <<"g","e","o","r","g","i","a">>,
       <<"k","i","t","a","k","a","z","e">>,
       <<"a","z","u","m","a">>,
       <<"f","r","i","e","d","r","i","c","h">>,
       <<"g","a","s","c","o","g","n","e">>,
       <<"c","h","a","m","p","a","g","n","e">>,
       <<"c","h","e","s","h","i","r","e">>,
       <<"d","r","a","k","e">>,
       <<"m","a","i","n","z">>,
       <<"o","d","i","n">> >>

REGEX_INPUT ==
    << <<"c","o","i","n">>, <<"c","u","b","e">>, <<"p","a","r","t">> >>

DR_SHIP ==
    { <<"a","z","u","m","a">>, <<"f","r","i","e","d","r","i","c","h">>,
      <<"d","r","a","k","e">> }

RARITY_DR == <<"d","r">>
RARITY_PRY == <<"p","r","y">>
DEFAULT_DURATION == <<"2","4">>

-----------------------------------------------------------------------------
(* Item labels used in catalog rows *)

Coin == <<"C","o","i","n">>
Cube == <<"C","u","b","e">>
Part == <<"P","a","r","t">>
Drake == <<"D","r","a","k","e">>
Azuma == <<"A","z","u","m","a">>
Neptune == <<"N","e","p","t","u","n","e">>
SaintLouis == <<"S","a","i","n","t"," ","L","o","u","i","s">>
SpecializedCore == <<"S","p","e","c","i","a","l","i","z","e","d"," ","C","o","r","e">>

InputItems == {Coin, Cube, Part, SpecializedCore}
OutputItems == {Drake, Azuma, Neptune, SaintLouis, SpecializedCore}


SeqsUpTo(S, n) == UNION {[1..k -> S] : k \in 0..n}

-----------------------------------------------------------------------------
(* The catalog LIST_RESEARCH_PROJECT: a read-only ordered list of rows       *)
(* {series, name, time (seconds), input, output}.  The first row is the      *)
(* scenario row of the specification; names are unique within a series.      *)

n_C_057_UL == <<"C","-","0","5","7","-","U","L">>
n_D_057_UL == <<"D","-","0","5","7","-","U","L">>
n_D_022_MI == <<"D","-","0","2","2","-","M","I">>
n_B_057_MI == <<"B","-","0","5","7","-","M","I">>
n_E_022_MI == <<"E","-","0","2","2","-","M","I">>
n_C_031_MI == <<"C","-","0","3","1","-","M","I">>
n_D_031_UL == <<"D","-","0","3","1","-","U","L">>

CatalogRow(series, name, time, input, output) ==
    [series |-> series, name |-> name, time |-> time,
     input |-> input, output |-> output]

LIST_RESEARCH_PROJECT ==
    << CatalogRow(1, n_C_057_UL, 21600, <<Cube>>, <<Drake>>),
       CatalogRow(1, n_D_022_MI, 1800, <<Coin>>, <<Neptune>>),
       CatalogRow(1, n_B_057_MI, 14400, <<>>, <<SpecializedCore>>),
       CatalogRow(1, n_E_022_MI, 21600, <<Part>>, <<SpecializedCore>>),
       CatalogRow(2, n_C_057_UL, 43200, <<Part>>, <<SpecializedCore, SaintLouis>>),
       CatalogRow(2, n_D_057_UL, 9000, <<Coin, Cube>>, <<Azuma>>),
       CatalogRow(2, n_E_022_MI, 7200, <<>>, <<SpecializedCore>>),
       CatalogRow(3, n_C_031_MI, 3600, <<>>, <<SpecializedCore>>),
       CatalogRow(3, n_D_031_UL, 28800, <<Cube>>, <<Drake>>) >>

-----------------------------------------------------------------------------
(* ResearchProject *)

\* ResearchProject.check_name
check_name(name) ==
    LET stripped == strip(name, {"-"})
        parts == split(stripped, "-")
    IN  IF Len(parts) = 3
        THEN LET number == replace(replace(replace(parts[2], "D", "0"), "O", "0"), "S", "5")
             IN  join("-", <<parts[1], number, parts[3]>>)
        ELSE stripped

SUFFIX_CHARS == {"M", "I", "R", "F", "U", "L", "-"}

startswith(s, c) == s # <<>> /\ s[1] = c

\* The three loops of ResearchProject.get_data, each as the sequence of rows
\* it yields, in catalog order.
\* Variant of the first loop that forgets the series comparison.
get_data_exact_any_series(name, series) ==
    SelectSeq(LIST_RESEARCH_PROJECT, LAMBDA data : data.name = name)

get_data_exact(name, series) ==
    SelectSeq(LIST_RESEARCH_PROJECT,
              LAMBDA data : data.series = series /\ data.name = name)

get_data_substituted(self_name, name, series) ==
    IF startswith(name, "D")
    THEN LET name1 == <<"C">> \o Tail(self_name)
         IN  SelectSeq(LIST_RESEARCH_PROJECT,
                       LAMBDA data : data.series = series /\ data.name = name1)
    ELSE <<>>

get_data_loose(name, series) ==
    SelectSeq(LIST_RESEARCH_PROJECT,
              LAMBDA data : /\ data.series = series
                            /\ rstrip(data.name, SUFFIX_CHARS) = rstrip(name, SUFFIX_CHARS))

\* Variant of get_data that runs the loose loop before the substitution loop.
get_data_loose_first(self_name, name, series) ==
    LET name1 == <<"C">> \o Tail(self_name)
        exact == get_data_exact(name, series)
        subst == get_data_substituted(self_name, name, series)
        loose == get_data_loose(name, series)
    IN  [i \in 1..Len(exact) |-> [data |-> exact[i], name |-> self_name]]
        \o [i \in 1..Len(loose) |-> [data |-> loose[i], name |-> self_name]]
        \o [i \in 1..Len(subst) |-> [data |-> subst[i], name |-> name1]]

\* ResearchProject.get_data as the sequence of its yields.  Each yield carries
\* the row and the value self.name has when the generator is suspended there
\* (the second loop assigns self.name = name1 just before it yields).
get_data(self_name, name, series) ==
    LET name1 == <<"C">> \o Tail(self_name)
        exact == get_data_exact(name, series)
        subst == get_data_substituted(self_name, name, series)
        loose == get_data_loose(name, series)
        after == IF subst = <<>> THEN self_name ELSE name1
    IN  [i \in 1..Len(exact) |-> [data |-> exact[i], name |-> self_name]]
        \o [i \in 1..Len(subst) |-> [data |-> subst[i], name |-> name1]]
        \o [i \in 1..Len(loose) |-> [data |-> loose[i], name |-> after]]

\* The attribute defaults assigned at the top of ResearchProject.__init__.
NewProject(name, series) ==
    [valid |-> TRUE,
     name |-> check_name(name),
     series |-> <<"S">> \o str_int(series),
     genre |-> <<>>,
     duration |-> DEFAULT_DURATION,
     ship |-> <<>>,
     ship_rarity |-> <<>>,
     need_coin |-> FALSE,
     need_cube |-> FALSE,
     need_part |-> FALSE,
     data |-> <<>>]

\* self.duration = str(data['time'] / 3600).rstrip('.0')
format_duration(seconds) == rstrip(str_hours(seconds), {".", "0"})

normalize_item(item) == lower(remove_spaces(item))

\* The loop over data['input']: need_<resource> is set for every item whose
\* normalized label contains the resource word.
needs(input, resource) ==
    \E i \in 1..Len(input) : re_search(REGEX_INPUT, normalize_item(input[i])) = resource

\* Variant of the output loop without the "if not self.ship" guard: a later
\* ship overwrites an earlier one.
RECURSIVE ship_loop_overwrite(_, _, _)
ship_loop_overwrite(output, ship, ship_rarity) ==
    IF output = <<>> THEN [ship |-> ship, ship_rarity |-> ship_rarity]
    ELSE LET result == re_search(REGEX_SHIP, normalize_item(Head(output)))
             ship1 == IF result # <<>> THEN result ELSE ship
             rarity1 == IF ship1 # <<>>
                        THEN (IF ship1 \in DR_SHIP THEN RARITY_DR ELSE RARITY_PRY)
                        ELSE ship_rarity
         IN  ship_loop_overwrite(Tail(output), ship1, rarity1)

\* The loop over data['output'], carrying (ship, ship_rarity).
RECURSIVE ship_loop(_, _, _)
ship_loop(output, ship, ship_rarity) ==
    IF output = <<>> THEN [ship |-> ship, ship_rarity |-> ship_rarity]
    ELSE LET result == re_search(REGEX_SHIP, normalize_item(Head(output)))
             ship1 == IF ship = <<>> THEN result ELSE ship
             rarity1 == IF ship1 # <<>>
                        THEN (IF ship1 \in DR_SHIP THEN RARITY_DR ELSE RARITY_PRY)
                        ELSE ship_rarity
         IN  ship_loop(Tail(output), ship1, rarity1)

\* Body of the "for data in self.get_data(...)" loop, run once (it breaks).
apply_data(self, data) ==
    LET s == ship_loop(data.output, self.ship, self.ship_rarity)
    IN  [self EXCEPT
            !.data = <<data>>,
            !.genre = <<data.name[1]>>,
            !.duration = format_duration(data.time),
            !.need_coin = self.need_coin \/ needs(data.input, REGEX_INPUT[1]),
            !.need_cube = self.need_cube \/ needs(data.input, REGEX_INPUT[2]),
            !.need_part = self.need_part \/ needs(data.input, REGEX_INPUT[3]),
            !.ship = s.ship,
            !.ship_rarity = s.ship_rarity]

\* Variant of the constructor that assigns attributes before it knows whether
\* a row matched: an unmatched record inherits the first row of the series.
ResearchProject_eager(name, series) ==
    LET self == NewProject(name, series)
        yields == get_data(self.name, self.name, series)
        same == SelectSeq(LIST_RESEARCH_PROJECT, LAMBDA data : data.series = series)
    IN  IF yields = <<>>
        THEN (IF same = <<>> THEN [self EXCEPT !.valid = FALSE]
              ELSE [apply_data(self, same[1]) EXCEPT !.valid = FALSE, !.data = <<>>])
        ELSE apply_data([self EXCEPT !.name = yields[1].name], yields[1].data)

\* ResearchProject.__init__
ResearchProject(name, series) ==
    LET self == NewProject(name, series)
        yields == get_data(self.name, self.name, series)
    IN  IF yields = <<>>
        THEN [self EXCEPT !.valid = FALSE]
        ELSE apply_data([self EXCEPT !.name = yields[1].name], yields[1].data)

-----------------------------------------------------------------------------
(* Inputs of the construction: recognized names and series numbers *)

Prefixes == {"B", "C", "D", "E"}
Numbers ==
    { <<"0","5","7">>, <<"O","5","7">>, <<"0","S","7">>,
      <<"0","2","2">>, <<"D","2","2">>, <<"0","3","1">> }
Suffixes == { <<"U","L">>, <<"M","I">>, <<"U">>, <<"R","F">> }

ExtraNames ==
    { <<"-">> \o n_C_057_UL, n_D_057_UL \o <<"-">>,
      <<"C","-","0","5","7">>, <<"C","-","0","5","7","-">>,
      <<"D","-","0","5","7">>, <<"D">>, <<>>,
      <<"C","-","0","5","7","-","U","L","-","M","I">> }

RawNames ==
    { <<p>> \o <<"-">> \o n \o <<"-">> \o s :
        p \in Prefixes, n \in Numbers, s \in Suffixes } \cup ExtraNames

SeriesNumbers == 0..3

DefaultRow == LIST_RESEARCH_PROJECT[1]

Rows ==
    { CatalogRow(1, n_C_057_UL, 1800 * k, input, output) :
        k \in 0..MaxHalfHours,
        input \in SeqsUpTo(InputItems, MaxInputs),
        output \in SeqsUpTo(OutputItems, MaxOutputs) }

-----------------------------------------------------------------------------
(* ResearchSelector *)

\* An element of a priority list: a str token or an int index (0-based).
Token(t) == [is_str |-> TRUE, token |-> t, index |-> 0]
Index(i) == [is_str |-> FALSE, token |-> "", index |-> i]

\* FILTER_PRESET: the instruction tokens the filter may return.
FILTER_PRESET == {"shortest", "cheapest", "reset"}

\* Variant of the conditions that tests the three resources with "and".
skipped_all_resources(cfg, proj) ==
    \/ ~proj.valid
    \/ /\ (~cfg.use_cube /\ proj.need_cube)
       /\ (~cfg.use_coin /\ proj.need_coin)
       /\ (~cfg.use_part /\ proj.need_part)
    \/ \/ upper(proj.genre) = <<"B">>
       \/ (upper(proj.genre) = <<"E">> /\ proj.duration # <<"6">>)

\* The "continue" conditions of ResearchSelector._research_check_filter for an
\* int entry.
skipped(cfg, proj) ==
    \/ ~proj.valid
    \/ \/ (~cfg.use_cube /\ proj.need_cube)
       \/ (~cfg.use_coin /\ proj.need_coin)
       \/ (~cfg.use_part /\ proj.need_part)
    \/ \/ upper(proj.genre) = <<"B">>
       \/ (upper(proj.genre) = <<"E">> /\ proj.duration # <<"6">>)

\* ResearchSelector._research_check_filter
RECURSIVE research_check_filter(_, _, _)
research_check_filter(cfg, projs, prio) ==
    IF prio = <<>> THEN <<>>
    ELSE LET index == Head(prio)
             rest == research_check_filter(cfg, projs, Tail(prio))
         IN  IF index.is_str THEN <<index>> \o rest
             ELSE IF skipped(cfg, projs[index.index + 1]) THEN rest
             ELSE <<index>> \o rest

\* FILTER.load(string); FILTER.apply(self.projects): whatever rule string is
\* loaded, the filter collaborator returns some list of indices into the
\* batch and instruction tokens.
RawOrderings(string, projs) ==
    SeqsUpTo({Index(i) : i \in 0..(Len(projs) - 1)}
                 \cup {Token(t) : t \in {"reset", "shortest"}},
             MaxPriority)

\* The (name, series) pairs recognized on a screenshot: one per reason the
\* post-filter has to keep or drop a record.
SlotInputs ==
    { [name |-> n_D_057_UL, series |-> 2],     \* needs coin and cube
      [name |-> n_B_057_MI, series |-> 1],     \* genre B
      [name |-> n_E_022_MI, series |-> 1],     \* genre E, duration 6, needs part
      [name |-> n_E_022_MI, series |-> 2],     \* genre E, duration 2
      [name |-> n_C_057_UL, series |-> 0] }    \* unknown series: invalid

\* RESEARCH_FILTER_PRESET values and the keys of DICT_FILTER_PRESET.
PresetInputs == {"customized", "series_3_than_2", "not_a_preset"}
DICT_FILTER_PRESET == {"series_3_than_2"}

-----------------------------------------------------------------------------
(* ResearchProjectJp *)

RECURSIVE int_of(_)
int_of(digits) ==
    IF digits = <<>> THEN 0
    ELSE 10 * int_of(SubSeq(digits, 1, Len(digits) - 1))
         + (CHOOSE d \in 0..9 : DIGITS[d + 1] = digits[Len(digits)])

\* ResearchProjectJp._parse_time on a string over the OCR alphabet
\* '0123456789:'.  re.search('(\d+):(\d+):(\d+)') matches at the leftmost three
\* consecutive non-empty digit fields; <<>> stands for None, <<t>> for a
\* timedelta of t seconds.
parse_time(string) ==
    LET fields == split(string, ":")
        starts == {i \in 1..(Len(fields) - 2) :
                      /\ fields[i] # <<>>
                      /\ fields[i + 1] # <<>>
                      /\ fields[i + 2] # <<>>}
    IN  IF starts = {} THEN <<>>
        ELSE LET i == Min(starts)
             IN  << 3600 * int_of(fields[i]) + 60 * int_of(fields[i + 1])
                    + int_of(fields[i + 2]) >>

\* ResearchProjectJp.__init__ on an image described by what its recognizers
\* return: peaks (the peak count of the series heuristic), time_text (the OCR
\* of the duration area), genre_label and ship_label (the match_template
\* results of the genre and ship crops).  raised = TRUE stands for the
\* AttributeError of None.total_seconds() in get_research_duration_jp.
ResearchProjectJp(image) ==
    LET known == 1 <= image.peaks /\ image.peaks <= 3
        series == IF known THEN <<"S">> \o str_int(image.peaks) ELSE <<>>
        time == parse_time(image.time_text)
        duration == IF time = <<>> THEN DEFAULT_DURATION ELSE format_duration(time[1])
        genre == image.genre_label
        ship == IF genre = <<"D">> THEN image.ship_label ELSE <<>>
        ship_rarity == IF ship # <<>>
                       THEN (IF ship \in DR_SHIP THEN RARITY_DR ELSE RARITY_PRY)
                       ELSE <<>>
    IN  [raised |-> time = <<>>,
         self |-> [valid |-> known,
                   name |-> series \o <<"-">> \o genre \o <<"-">> \o duration
                            \o <<" ">> \o ship,
                   series |-> series,
                   genre |-> genre,
                   duration |-> duration,
                   ship |-> ship,
                   ship_rarity |-> ship_rarity,
                   need_coin |-> FALSE,
                   need_cube |-> FALSE,
                   need_part |-> FALSE,
                   data |-> <<>>]]

\* Duration texts whose time is a whole or half number of hours, and texts
\* that are not H:M:S.
TimeTexts ==
    { <<"0","6",":","0","0",":","0","0">>,
      <<"0","0",":","3","0",":","0","0">>,
      <<"1","0",":","0","0",":","0","0">>,
      <<"6",":","0","0">> }

JpImages ==
    [peaks : {0, 2}, time_text : TimeTexts,
     genre_label : {<<"C">>, <<"D">>},
     ship_label : {<<>>, <<"d","r","a","k","e">>}]

-----------------------------------------------------------------------------
(* MatchTemplate *)

\* similarity = 0.85; scores are counted in hundredths.
SIMILARITY == 85

\* os.path.splitext(file)[0]: the name up to the last dot, unless that dot
\* only belongs to the leading dots of the name.
splitext_root(file) ==
    LET dots == {i \in 1..Len(file) : file[i] = "."}
    IN  IF dots = {} THEN file
        ELSE LET last == CHOOSE i \in dots : \A j \in dots : j <= i
             IN  IF \E j \in 1..(last - 1) : file[j] # "."
                 THEN SubSeq(file, 1, last - 1)
                 ELSE file

\* A dict kept in insertion order, as a sequence of [key, value] entries:
\* assigning to an existing key replaces its value in place.
dict_set(d, key, value) ==
    IF \E i \in 1..Len(d) : d[i].key = key
    THEN [i \in 1..Len(d) |->
              IF d[i].key = key THEN [key |-> key, value |-> value] ELSE d[i]]
    ELSE Append(d, [key |-> key, value |-> value])

has_key(d, key) == \E i \in 1..Len(d) : d[i].key = key

\* MatchTemplate._load_folder: base name -> file path.
RECURSIVE load_folder_loop(_, _)
load_folder_loop(files, acc) ==
    IF files = <<>> THEN acc
    ELSE load_folder_loop(Tail(files),
                          dict_set(acc, splitext_root(Head(files)), Head(files)))

load_folder(dir) ==
    IF ~dir.exists THEN <<>> ELSE load_folder_loop(dir.files, <<>>)

\* MatchTemplate.load_template_folder, starting from self.templates; the
\* image loaded from a file is identified with the file.
RECURSIVE load_template_loop(_, _)
load_template_loop(data, tpl) ==
    IF data = <<>> THEN tpl
    ELSE IF has_key(tpl, Head(data).key)
         THEN load_template_loop(Tail(data), tpl)
         ELSE load_template_loop(Tail(data),
                                 dict_set(tpl, Head(data).key, Head(data).value))

load_template_folder(dir, tpl) == load_template_loop(load_folder(dir), tpl)

\* Variant of the matching loop that replaces the running best on ">=".
RECURSIVE match_template_loop_ge(_, _, _, _)
match_template_loop_ge(tpl, sims, similarity, res) ==
    IF tpl = <<>> THEN res
    ELSE LET sim == sims[Head(tpl).value]
         IN  IF sim >= similarity
             THEN match_template_loop_ge(Tail(tpl), sims, sim, Head(tpl).key)
             ELSE match_template_loop_ge(Tail(tpl), sims, similarity, res)

\* The loop of MatchTemplate.match_template: sims gives the score of the
\* query against each reference image.
RECURSIVE match_template_loop(_, _, _, _)
match_template_loop(tpl, sims, similarity, res) ==
    IF tpl = <<>> THEN res
    ELSE LET sim == sims[Head(tpl).value]
         IN  IF sim > similarity
             THEN match_template_loop(Tail(tpl), sims, sim, Head(tpl).key)
             ELSE match_template_loop(Tail(tpl), sims, similarity, res)

\* MatchTemplate.match_template
match_template(tpl, sims) == match_template_loop(tpl, sims, SIMILARITY, <<>>)

\* Files a template folder may hold: two with the same base name, one
\* without extension, one with another base name.
Files ==
    { <<"D",".","p","n","g">>, <<"D",".","j","p","g">>,
      <<"D">>, <<"C",".","p","n","g">> }

Scores == {80, 85, 90}

\* os.listdir: the files of the folder, each once, in any order.
Listings ==
    {l \in SeqsUpTo(Files, MaxFiles) :
        \A i, j \in 1..Len(l) : i # j => l[i] # l[j]}

TemplateIdle ==
    /\ folder = [exists |-> FALSE, files |-> <<>>]
    /\ query = [f \in Files |-> 0]
    /\ templates = <<>>
    /\ label = <<>>

\* The selector's state before any call.
SelectorIdle ==
    /\ config = [use_coin |-> TRUE, use_cube |-> TRUE, use_part |-> TRUE]
    /\ projects = <<>>
    /\ priority = <<>>
    /\ out = <<>>
    /\ images = <<>>

-----------------------------------------------------------------------------
(* Specification of ResearchProject construction: the arguments are drawn    *)
(* from the recognized names and series, then the constructor runs once.     *)

Init ==
    /\ args \in [name : RawNames, series : SeriesNumbers]
    /\ project = <<>>
    /\ row = DefaultRow
    /\ derived = <<>>
    /\ pc = "new"
    /\ SelectorIdle
    /\ TemplateIdle

Construct ==
    /\ pc = "new"
    /\ project' = <<ResearchProject(args.name, args.series)>>
    /\ pc' = "done"
    /\ UNCHANGED <<args, row, derived, selector_vars, template_vars>>

Next == Construct

Spec == Init /\ [][Next]_vars

(* Specification of the attribute derivation over arbitrary rows *)

InitRow ==
    /\ args = [name |-> DefaultRow.name, series |-> DefaultRow.series]
    /\ project = <<>>
    /\ row \in Rows
    /\ derived = <<>>
    /\ pc = "new"
    /\ SelectorIdle
    /\ TemplateIdle

Derive ==
    /\ pc = "new"
    /\ derived' = <<apply_data(NewProject(row.name, row.series), row)>>
    /\ pc' = "done"
    /\ UNCHANGED <<args, project, row, selector_vars, template_vars>>

NextRow == Derive

SpecRow == InitRow /\ [][NextRow]_vars

-----------------------------------------------------------------------------
(* Specification of the selector: one screenshot is recognized, then one of  *)
(* the three research_sort_* entry points is called.                         *)

InitSelector ==
    /\ args = [name |-> DefaultRow.name, series |-> DefaultRow.series]
    /\ project = <<>>
    /\ row = DefaultRow
    /\ derived = <<>>
    /\ pc = "detect"
    /\ config \in [use_coin : BOOLEAN, use_cube : BOOLEAN, use_part : BOOLEAN]
    /\ projects = <<>>
    /\ priority = <<>>
    /\ out = <<>>
    /\ images = <<>>
    /\ TemplateIdle

\* ResearchSelector.research_detect: one ResearchProject per recognized
\* (name, series) pair, in slot order.
research_detect ==
    /\ pc = "detect"
    /\ \E slots \in SeqsUpTo(SlotInputs, MaxSlots) :
          projects' = [i \in 1..Len(slots) |->
                          ResearchProject(slots[i].name, slots[i].series)]
    /\ pc' = "sort"
    /\ UNCHANGED <<args, project, row, derived, config, priority, out, images,
                   template_vars>>

\* The common tail of the three entry points: FILTER.load(string),
\* FILTER.apply(self.projects), self._research_check_filter(priority).
sort_with(string) ==
    /\ pc = "sort"
    /\ \E raw \in RawOrderings(string, projects) :
          /\ priority' = raw
          /\ out' = research_check_filter(config, projects, raw)
    /\ pc' = "sorted"
    /\ UNCHANGED <<args, project, row, derived, config, projects, images,
                   template_vars>>

\* ResearchSelector.research_sort_filter
research_sort_filter ==
    \E preset \in PresetInputs :
        sort_with(IF preset = "customized" THEN "RESEARCH_FILTER_STRING"
                  ELSE IF preset \notin DICT_FILTER_PRESET
                       THEN "DICT_FILTER_PRESET[series_3_than_2]"
                       ELSE "DICT_FILTER_PRESET[" \o preset \o "]")

\* ResearchSelector.research_sort_shortest
research_sort_shortest == sort_with("FILTER_STRING_SHORTEST")

\* ResearchSelector.research_sort_cheapest
research_sort_cheapest == sort_with("FILTER_STRING_CHEAPEST")

NextSelector ==
    \/ research_detect
    \/ research_sort_filter
    \/ research_sort_shortest
    \/ research_sort_cheapest

SpecSelector == InitSelector /\ [][NextSelector]_vars

-----------------------------------------------------------------------------
(* Specification of research_detect_jp on a batch of screenshots *)

InitJp ==
    /\ args = [name |-> DefaultRow.name, series |-> DefaultRow.series]
    /\ project = <<>>
    /\ row = DefaultRow
    /\ derived = <<>>
    /\ pc = "call"
    /\ config = [use_coin |-> TRUE, use_cube |-> TRUE, use_part |-> TRUE]
    /\ projects = <<>>
    /\ priority = <<>>
    /\ out = <<>>
    /\ images \in SeqsUpTo(JpImages, MaxImages)
    /\ TemplateIdle

\* ResearchSelector.research_detect_jp: the loop builds one ResearchProjectJp
\* per image; an exception raised by a constructor leaves the call before
\* self.projects is assigned.
research_detect_jp ==
    /\ pc = "call"
    /\ LET built == [i \in 1..Len(images) |-> ResearchProjectJp(images[i])]
       IN  IF \E i \in 1..Len(images) : built[i].raised
           THEN /\ pc' = "raised"
                /\ UNCHANGED projects
           ELSE /\ pc' = "done"
                /\ projects' = [i \in 1..Len(images) |-> built[i].self]
    /\ UNCHANGED <<args, project, row, derived, config, priority, out, images,
                   template_vars>>

NextJp == research_detect_jp

SpecJp == InitJp /\ [][NextJp]_vars

-----------------------------------------------------------------------------
(* Specification of MatchTemplate: construction from a folder, then one      *)
(* match_template call.                                                      *)

InitTemplate ==
    /\ args = [name |-> DefaultRow.name, series |-> DefaultRow.series]
    /\ project = <<>>
    /\ row = DefaultRow
    /\ derived = <<>>
    /\ pc = "new"
    /\ SelectorIdle
    /\ folder \in [exists : BOOLEAN, files : Listings]
    /\ folder.exists \/ folder.files = <<>>
    /\ query \in [Files -> Scores]
    /\ templates = <<>>
    /\ label = <<>>

\* MatchTemplate.__init__
MatchTemplate ==
    /\ pc = "new"
    /\ templates' = load_template_folder(folder, <<>>)
    /\ pc' = "loaded"
    /\ UNCHANGED <<args, project, row, derived, selector_vars, folder, query,
                   label>>

\* MatchTemplate.match_template
MatchQuery ==
    /\ pc = "loaded"
    /\ label' = match_template(templates, query)
    /\ pc' = "matched"
    /\ UNCHANGED <<args, project, row, derived, selector_vars, folder, query,
                   templates>>

NextTemplate == MatchTemplate \/ MatchQuery

SpecTemplate == InitTemplate /\ [][NextTemplate]_vars

-----------------------------------------------------------------------------
(* Properties of ResearchProject construction (specification Spec) *)

Built == project # <<>>
Self == project[1]
Checked == check_name(args.name)
Substituted == <<"C">> \o SubSeq(Checked, 2, Len(Checked))

CatalogIndex == 1..Len(LIST_RESEARCH_PROJECT)

\* The rows each fallback layer accepts, stated over the catalog directly.
Layer1 ==
    {i \in CatalogIndex :
        /\ LIST_RESEARCH_PROJECT[i].series = args.series
        /\ LIST_RESEARCH_PROJECT[i].name = Checked}
Layer2 ==
    {i \in CatalogIndex :
        /\ Checked # <<>> /\ Checked[1] = "D"
        /\ LIST_RESEARCH_PROJECT[i].series = args.series
        /\ LIST_RESEARCH_PROJECT[i].name = Substituted}
Layer3 ==
    {i \in CatalogIndex :
        /\ LIST_RESEARCH_PROJECT[i].series = args.series
        /\ rstrip(LIST_RESEARCH_PROJECT[i].name, SUFFIX_CHARS)
               = rstrip(Checked, SUFFIX_CHARS)}

NoCatalogMatch == Layer1 = {} /\ Layer2 = {} /\ Layer3 = {}

DerivedAttributesEmpty(p) ==
    /\ p.genre = <<>> /\ p.ship = <<>> /\ p.ship_rarity = <<>>
    /\ ~p.need_coin /\ ~p.need_cube /\ ~p.need_part

\* C2 (as stated): a record built from a (name, series) pair that matches no
\* catalog row at any layer is invalid and every derived attribute, duration
\* included, is empty or false.
C2_AsStated ==
    (Built /\ NoCatalogMatch) =>
        /\ ~Self.valid
        /\ DerivedAttributesEmpty(Self)
        /\ Self.duration = <<>>

\* C2 (amended): such a record is invalid, genre, ship and ship_rarity are
\* empty, the three need flags are false, duration keeps the constructor's
\* default '24', and name and series are the corrected input and 'S<series>'.
C2_InvalidDefaults ==
    (Built /\ NoCatalogMatch) =>
        /\ ~Self.valid
        /\ DerivedAttributesEmpty(Self)
        /\ Self.duration = <<"2","4">>
        /\ Self.name = Checked
        /\ Self.series = <<"S">> \o str_int(args.series)

C2_Witness == Built /\ NoCatalogMatch /\ Checked # <<>> /\ args.series = 1

\* The record's name was replaced by the substituted 'C...' form.
NameSubstituted == Self.name = Substituted /\ Self.name # Checked

\* C4: the committed row is the first row of the first non-empty layer in the
\* order exact, substituted, loose (a later layer commits only when every
\* earlier layer is empty); the record's name is replaced by the substituted
\* 'C...' form exactly when the committed row comes from the substituted
\* layer; ('D-057-UL', 1) yields a valid record named 'C-057-UL'.
C4_LayerOrder ==
    Built =>
        /\ Self.valid <=> ~NoCatalogMatch
        /\ Layer1 # {} =>
              Self.data = <<LIST_RESEARCH_PROJECT[Min(Layer1)]>>
        /\ (Layer1 = {} /\ Layer2 # {}) =>
              Self.data = <<LIST_RESEARCH_PROJECT[Min(Layer2)]>>
        /\ (Layer1 = {} /\ Layer2 = {} /\ Layer3 # {}) =>
              Self.data = <<LIST_RESEARCH_PROJECT[Min(Layer3)]>>
        /\ NameSubstituted <=> (Layer1 = {} /\ Layer2 # {})
        /\ (args.name = n_D_057_UL /\ args.series = 1) =>
              /\ Self.valid
              /\ Self.name = n_C_057_UL

\* A case where the substituted layer commits although the loose layer also
\* has a row.
C4_Witness ==
    /\ Built /\ Layer1 = {} /\ Layer2 # {} /\ Layer3 # {}
    /\ NameSubstituted
    /\ Self.data = <<LIST_RESEARCH_PROJECT[Min(Layer2)]>>

\* C5: for every catalog row R, get_data(R.name, R.series) yields R first, and
\* the record built from (R.name, R.series) is valid and commits to R.
C5_RoundTrip ==
    \A i \in CatalogIndex :
        LET R == LIST_RESEARCH_PROJECT[i]
        IN  (Built /\ args.name = R.name /\ args.series = R.series) =>
                /\ get_data(R.name, R.name, R.series) # <<>>
                /\ get_data(R.name, R.name, R.series)[1].data = R
                /\ Self.valid
                /\ Self.data = <<R>>

C5_Witness ==
    /\ Built
    /\ args.name = LIST_RESEARCH_PROJECT[5].name
    /\ args.series = LIST_RESEARCH_PROJECT[5].series
    /\ Self.data = <<LIST_RESEARCH_PROJECT[5]>>

\* C6: every valid record's name equals the canonical name of the catalog row
\* it committed to, whichever layer produced that row.
C6_CanonicalName ==
    (Built /\ Self.valid) => Self.name = Self.data[1].name

-----------------------------------------------------------------------------
(* Properties of the attribute derivation (specification SpecRow) *)

Derived == derived # <<>>
Rec == derived[1]

\* C7: for a row whose time is a whole number h >= 1 of hours the duration is
\* the decimal numeral of h, and for a half-hour value it is the numeral of
\* the whole part followed by '.5'.
C7_Duration ==
    Derived =>
        /\ (row.time % 3600 = 0 /\ row.time >= 3600) =>
              Rec.duration = str_int(row.time \div 3600)
        /\ (row.time % 3600 = 1800) =>
              Rec.duration = str_int(row.time \div 3600) \o <<".", "5">>

Contains(text, word) ==
    \E p \in 1..Len(text) : MatchAt(text, p, word)

NamesShip(item) ==
    \E k \in 1..Len(REGEX_SHIP) : Contains(normalize_item(item), REGEX_SHIP[k])
NamesDrShip(item) ==
    \E w \in DR_SHIP : Contains(normalize_item(item), w)

ShipVocabulary == {REGEX_SHIP[k] : k \in 1..Len(REGEX_SHIP)}

\* C8 (as stated): a record whose row's output list contains a high-tier ship
\* at any position has ship_rarity 'dr'; a record whose recognized ship is any
\* other ship of the vocabulary has ship_rarity 'pry'.
C8_AsStated ==
    Derived =>
        /\ (\E i \in 1..Len(row.output) : NamesDrShip(row.output[i])) =>
              Rec.ship_rarity = RARITY_DR
        /\ (Rec.ship \in ShipVocabulary \ DR_SHIP) =>
              Rec.ship_rarity = RARITY_PRY

\* C8 (amended): the first output that names a ship of the vocabulary decides:
\* ship_rarity is 'dr' when that output names a high-tier ship and 'pry' when
\* it names any other ship, whatever the later outputs are; a record whose
\* recognized ship is outside the high-tier set has ship_rarity 'pry'.
C8_FirstShipDecides ==
    Derived =>
        LET ships == {i \in 1..Len(row.output) : NamesShip(row.output[i])}
        IN  /\ ships # {} =>
                  Rec.ship_rarity =
                      IF NamesDrShip(row.output[Min(ships)])
                      THEN RARITY_DR ELSE RARITY_PRY
            /\ ships = {} => Rec.ship_rarity = <<>>
            /\ (Rec.ship \in ShipVocabulary \ DR_SHIP) =>
                  Rec.ship_rarity = RARITY_PRY

\* A high-tier ship first, another ship after it.
C8_Witness ==
    /\ Derived
    /\ Len(row.output) = 2
    /\ NamesDrShip(row.output[1])
    /\ NamesShip(row.output[2]) /\ ~NamesDrShip(row.output[2])
    /\ Rec.ship_rarity = RARITY_DR

-----------------------------------------------------------------------------
(* Properties of the priority post-filter (specification SpecSelector) *)

Sorted == pc = "sorted"

\* The entries the claim says are removed: an index whose record is invalid,
\* or needs a resource whose flag is off, or has genre 'B', or has genre 'E'
\* with a duration other than '6'.
Removed(entry) ==
    /\ ~entry.is_str
    /\ LET proj == projects[entry.index + 1]
       IN  \/ proj.valid = FALSE
           \/ (proj.need_coin /\ ~config.use_coin)
           \/ (proj.need_cube /\ ~config.use_cube)
           \/ (proj.need_part /\ ~config.use_part)
           \/ proj.genre = <<"B">>
           \/ (proj.genre = <<"E">> /\ proj.duration # <<"6">>)

\* C1: the returned list is the raw ordering with exactly the entries of
\* Removed deleted; tokens and all other indices are kept, unchanged, in
\* their original relative order.
C1_PostFilter ==
    Sorted => out = SelectSeq(priority, LAMBDA entry : ~Removed(entry))

\* A raw ordering where a token follows a dropped index and precedes a kept
\* one, the dropped record being dropped only for a disabled resource.
C1_Witness ==
    /\ Sorted
    /\ Len(priority) = 3 /\ Len(out) = 2
    /\ ~priority[1].is_str /\ priority[2].is_str /\ ~priority[3].is_str
    /\ out = <<priority[2], priority[3]>>
    /\ LET proj == projects[priority[1].index + 1]
       IN  /\ proj.valid /\ proj.genre = <<"E">> /\ proj.duration = <<"6">>
           /\ proj.need_part /\ ~config.use_part
           /\ config.use_coin /\ config.use_cube

-----------------------------------------------------------------------------
(* Properties of research_detect_jp (specification SpecJp) *)

\* C3: for every list of images, also ones whose duration text is not a
\* well-formed H:M:S string, the call completes and self.projects holds one
\* record per input image, in input order.
C3_BatchCompletes ==
    pc # "call" =>
        /\ pc = "done"
        /\ Len(projects) = Len(images)
        /\ \A i \in 1..Len(images) :
              /\ projects[i].genre = images[i].genre_label
              /\ projects[i].valid = (images[i].peaks \in 1..3)

-----------------------------------------------------------------------------
(* Properties of MatchTemplate (specification SpecTemplate) *)

ScoreOf(i) == query[templates[i].value]

C10_FirstLoadedWins ==
    pc # "new" =>
        \A i \in 1..Len(templates) :
            LET same == {k \in 1..Len(folder.files) :
                            splitext_root(folder.files[k]) = templates[i].key}
            IN  templates[i].value = folder.files[Min(same)]

=============================================================================
